---------------------------- MODULE Spec2Model ----------------------------
(***************************************************************************)
(* Banknote classification pipeline of api_app.py (POST /predict) and of   *)
(* streamlit_app.py (predict_data and the Analyze button).                 *)
(*                                                                         *)
(* Column names are sequences of one-character strings, so that the        *)
(* normalisation of the headers (strip, lower, replace) is computed and    *)
(* not assumed.  A cell of an uploaded table is a number, a blank or a     *)
(* text that is not a number.  Numbers are even integers (half units), so  *)
(* that the mean of the two middle values of a column is exact.            *)
(***************************************************************************)
EXTENDS Integers, Sequences, FiniteSets, TLC

\* the sequence f as a tuple whose elements are evaluated once
Tuple(f) == <<>> \o f

(* ------------------------------------------------------------------ *)
(* Column names of column_mapping and required_columns                 *)
(* ------------------------------------------------------------------ *)
diagonal == <<"d","i","a","g","o","n","a","l">>
height_left == <<"h","e","i","g","h","t","_","l","e","f","t">>
height_right == <<"h","e","i","g","h","t","_","r","i","g","h","t">>
margin_low == <<"m","a","r","g","i","n","_","l","o","w">>
margin_up == <<"m","a","r","g","i","n","_","u","p">>
length == <<"l","e","n","g","t","h">>
dingmail == <<"d","i","n","g","m","a","i","l">>
diagonale == <<"d","i","a","g","o","n","a","l","e">>
hauteur_gauche == <<"h","a","u","t","e","u","r","_","g","a","u","c","h","e">>
hauteur_droite == <<"h","a","u","t","e","u","r","_","d","r","o","i","t","e">>
margin_bow == <<"m","a","r","g","i","n","_","b","o","w">>
marge_basse == <<"m","a","r","g","e","_","b","a","s","s","e">>
marge_haute == <<"m","a","r","g","e","_","h","a","u","t","e">>
longueur == <<"l","o","n","g","u","e","u","r">>

\* column_mapping, in the insertion order the loop iterates it
column_mapping ==
    << [standard_name |-> diagonal,     variants |-> <<diagonal, dingmail, diagonale>>],
       [standard_name |-> height_left,  variants |-> <<height_left, hauteur_gauche>>],
       [standard_name |-> height_right, variants |-> <<height_right, hauteur_droite>>],
       [standard_name |-> margin_low,   variants |-> <<margin_low, margin_bow, marge_basse>>],
       [standard_name |-> margin_up,    variants |-> <<margin_up, marge_haute>>],
       [standard_name |-> length,       variants |-> <<length, longueur>>] >>

required_columns ==
    <<diagonal, height_left, height_right, margin_low, margin_up, length>>

(* ------------------------------------------------------------------ *)
(* str.strip().str.lower().str.replace(' ', '_')                        *)
(* ------------------------------------------------------------------ *)
UpperChars == <<"A","B","C","D","E","F","G","H","I","J","K","L","M","N","O","P","Q","R","S","T","U","V","W","X","Y","Z">>
LowerChars == <<"a","b","c","d","e","f","g","h","i","j","k","l","m","n","o","p","q","r","s","t","u","v","w","x","y","z">>

UpperSet == {UpperChars[i] : i \in DOMAIN UpperChars}

LowerOf == [c \in UpperSet |-> LowerChars[CHOOSE i \in DOMAIN UpperChars : UpperChars[i] = c]]

\* str.lower() on one character
LowerChar(ch) == IF ch \in UpperSet THEN LowerOf[ch] ELSE ch

RECURSIVE LStrip(_)
LStrip(s) ==
    IF s # <<>> /\ Head(s) = " " THEN LStrip(Tail(s)) ELSE s

RECURSIVE RStrip(_)
RStrip(s) ==
    IF s # <<>> /\ s[Len(s)] = " " THEN RStrip(SubSeq(s, 1, Len(s) - 1)) ELSE s

StrStrip(s) == RStrip(LStrip(s))

StrLower(s) == Tuple([i \in DOMAIN s |-> LowerChar(s[i])])

StrReplace(s) == Tuple([i \in DOMAIN s |-> IF s[i] = " " THEN "_" ELSE s[i]])

NormalizeNoStrip(s) == StrReplace(StrLower(s))

\* one column name through line 79 (api_app.py) / line 209 (streamlit_app.py)
Normalize(s) == StrReplace(StrLower(StrStrip(s)))

(* ------------------------------------------------------------------ *)
(* Data frames: an ordered list of named columns over n rows            *)
(* ------------------------------------------------------------------ *)
Num(v) == [k |-> "num", v |-> v]
NaN == [k |-> "nan", v |-> 0]
Text == [k |-> "txt", v |-> 0]

ColumnNames(df) == Tuple([i \in DOMAIN df.cols |-> df.cols[i].name])

\* `name in df.columns`
HasColumn(df, name) == \E i \in DOMAIN df.cols : df.cols[i].name = name

\* df.columns = df.columns.str.strip().str.lower().str.replace(' ', '_')
CleanColumns(df) ==
    [df EXCEPT !.cols = Tuple([i \in DOMAIN df.cols |->
                            [df.cols[i] EXCEPT !.name = Normalize(df.cols[i].name)]])]

\* df.rename(columns={old: new}, inplace=True): every column labelled old
Rename(df, old, new) ==
    [df EXCEPT !.cols = Tuple([i \in DOMAIN df.cols |->
                            IF df.cols[i].name = old
                            THEN [df.cols[i] EXCEPT !.name = new]
                            ELSE df.cols[i]])]

\* the inner loop with its break: the first variant that is a column is renamed
RenameFirstVariant(df, entry) ==
    LET present == {j \in DOMAIN entry.variants : HasColumn(df, entry.variants[j])}
    IN  IF present = {}
        THEN df
        ELSE LET j == CHOOSE x \in present : \A y \in present : x <= y
             IN  Rename(df, entry.variants[j], entry.standard_name)

RECURSIVE RenameLoop(_, _)
RenameLoop(df, k) ==
    IF k > Len(column_mapping)
    THEN df
    ELSE RenameLoop(RenameFirstVariant(df, column_mapping[k]), k + 1)

\* lines 79-96 (api_app.py), 209-224 (streamlit_app.py): the table after resolution
ResolveColumns(df) == RenameLoop(CleanColumns(df), 1)

MissingColsFirstOnly(df) ==
    LET all == SelectSeq(required_columns, LAMBDA c : ~HasColumn(df, c))
    IN  IF all = <<>> THEN <<>> ELSE <<Head(all)>>

\* missing_cols = [col for col in required_columns if col not in df.columns]
MissingCols(df) == SelectSeq(required_columns, LAMBDA c : ~HasColumn(df, c))

(* ------------------------------------------------------------------ *)
(* Selection, coercion and imputation                                   *)
(* ------------------------------------------------------------------ *)
NoFrame == [cols |-> <<>>, n |-> 0]

ColumnsNamed(df, name) == SelectSeq(df.cols, LAMBDA col : col.name = name)

RECURSIVE SelectFrom(_, _)
SelectFrom(df, k) ==
    IF k > Len(required_columns)
    THEN <<>>
    ELSE ColumnsNamed(df, required_columns[k]) \o SelectFrom(df, k + 1)

\* df[required_columns]: for each requested label, every column carrying it
SelectRequired(df) == [cols |-> SelectFrom(df, 1), n |-> df.n]

\* pd.to_numeric(errors='coerce') on one cell: text that is no number becomes NaN
ToNumeric(cell) == IF cell.k = "num" THEN cell ELSE NaN

\* .apply(pd.to_numeric, errors='coerce')
ApplyToNumeric(df) ==
    [df EXCEPT !.cols = Tuple([i \in DOMAIN df.cols |->
        [df.cols[i] EXCEPT !.cells = Tuple([r \in DOMAIN df.cols[i].cells |->
                                         ToNumeric(df.cols[i].cells[r])])]])]

RECURSIVE Insert(_, _)
Insert(v, sorted) ==
    IF sorted = <<>> THEN <<v>>
    ELSE IF v <= Head(sorted) THEN <<v>> \o sorted
    ELSE <<Head(sorted)>> \o Insert(v, Tail(sorted))

RECURSIVE SortedValues(_)
SortedValues(cells) ==
    IF cells = <<>> THEN <<>>
    ELSE IF Head(cells).k = "num"
         THEN Insert(Head(cells).v, SortedValues(Tail(cells)))
         ELSE SortedValues(Tail(cells))

\* Series.median(): over the non-missing values; NaN when there is none
Median(cells) ==
    LET s == SortedValues(cells)
        m == Len(s)
    IN  IF m = 0 THEN NaN
        ELSE IF m % 2 = 1 THEN Num(s[(m + 1) \div 2])
        ELSE Num((s[m \div 2] + s[m \div 2 + 1]) \div 2)

IsObjectColumn(col) == \E r \in DOMAIN col.cells : col.cells[r].k = "txt"

\* DataFrame.median() of a frame whose columns are all numeric: one entry per column
FrameMedian(df) ==
    Tuple([i \in DOMAIN df.cols |->
              [name |-> df.cols[i].name, value |-> Median(df.cols[i].cells)]])

\* DataFrame.median() of a frame as parsed: an object column (one holding text) is
\* left out by the builds of pandas that drop nuisance columns
FrameMedianDropObject(df) ==
    FrameMedian([df EXCEPT !.cols = SelectSeq(df.cols, LAMBDA col : ~IsObjectColumn(col))])

\* the value fillna(series) uses for a column: the entry of the series with its label
FillValue(medians, name) ==
    IF \E j \in DOMAIN medians : medians[j].name = name
    THEN medians[CHOOSE j \in DOMAIN medians :
                    /\ medians[j].name = name
                    /\ \A x \in DOMAIN medians : medians[x].name = name => j <= x].value
    ELSE NaN

\* df.fillna(medians): a missing cell takes its column's entry, when there is one
FillNa(df, medians) ==
    [df EXCEPT !.cols = Tuple([i \in DOMAIN df.cols |->
        [df.cols[i] EXCEPT !.cells = Tuple([r \in DOMAIN df.cols[i].cells |->
            IF df.cols[i].cells[r].k = "num"
            THEN df.cols[i].cells[r]
            ELSE FillValue(medians, df.cols[i].name)])]])]

FrameHasNaN(df) ==
    \E i \in DOMAIN df.cols : \E r \in DOMAIN df.cols[i].cells : df.cols[i].cells[r].k # "num"

\* df.to_dict('records')[r] / df.iloc[r].to_dict()
RowDict(df, r) ==
    Tuple([i \in DOMAIN df.cols |-> [name |-> df.cols[i].name, value |-> df.cols[i].cells[r]]])

(* ------------------------------------------------------------------ *)
(* State                                                                *)
(* ------------------------------------------------------------------ *)
VARIABLES
    build,            \* what the installed pandas / scikit-learn do where versions differ
    artifacts,        \* model, scaler as loaded at start-up (None: the load failed)
    file,             \* the uploaded file: the table its text holds, and how it decodes
    http_run,         \* predict(): its locals and its exception when its last call ended
    response,         \* predict(): the last HTTP response
    session_df,       \* st.session_state.df
    session_results,  \* st.session_state.results
    dash_run,         \* predict_data(): its locals and its st.error when its last call ended
    st_error          \* the st.error message of the last script run

vars == <<build, artifacts, file, http_run, response,
          session_df, session_results, dash_run, st_error>>

None == [none |-> TRUE]

(* ------------------------------------------------------------------ *)
(* Scoring: scaler.transform, model.predict, model.predict_proba        *)
(* The two artifacts are opaque; each is one of a small family of       *)
(* deterministic functions of the row.  Probabilities are in percent.   *)
(* ------------------------------------------------------------------ *)
\* scaler.transform on one cell: standardisation, NaN passed through
ScaleCell(scaler, cell) == IF cell.k = "num" THEN Num(cell.v - scaler.mean) ELSE cell

ScaledRow(scaler, df, r) ==
    Tuple([i \in DOMAIN df.cols |-> ScaleCell(scaler, df.cols[i].cells[r])])

RECURSIVE RowScore(_)
RowScore(x) ==
    IF x = <<>> THEN 0
    ELSE (IF Head(x).k = "num" THEN Head(x).v ELSE 0) + RowScore(Tail(x))

Clamp(v) == IF v < 0 THEN 0 ELSE IF v > 100 THEN 100 ELSE v

\* model.predict_proba(X)[r]: <<p0, p1>>, python's prob[0] and prob[1]
PredictProba(model, x) ==
    LET p1 == Clamp(50 + model.slope * (RowScore(x) - model.cut))
    IN  <<100 - p1, p1>>

\* model.predict(X)[r]: the class with the larger probability
Predict(model, x) ==
    LET prob == PredictProba(model, x)
    IN  IF prob[2] > prob[1] THEN 1 ELSE 0

\* predictions = model.predict(X_scaled)
Classes(df) ==
    Tuple([r \in 1..df.n |-> Predict(artifacts.model, ScaledRow(artifacts.scaler, df, r))])

\* probabilities = model.predict_proba(X_scaled)
Probabilities(df) ==
    Tuple([r \in 1..df.n |->
              PredictProba(artifacts.model, ScaledRow(artifacts.scaler, df, r))])

\* scaler.transform / model.predict raise: no artifact behind the name (a method
\* call on None); a frame that has not the six fitted features; NaN in a build whose
\* classifier rejects it
ScoringRaises(df) ==
    \/ artifacts = None
    \/ Len(df.cols) # Len(required_columns)
    \/ FrameHasNaN(df) /\ build.predict_nan = "raise"

LabelOf(pred) == IF pred # 0 THEN "Genuine" ELSE "Fake"

ProbabilityOfAlwaysP1(pred, prob) == prob[2]

\* float(prob[1] if pred else prob[0])
ProbabilityOf(pred, prob) == IF pred # 0 THEN prob[2] ELSE prob[1]

ImageUrl(pred) == IF pred # 0 THEN "/images/vrai.png" ELSE "/images/faux.png"

RowIdZeroBased(i) == i

\* "id": i + 1, i counting from 0 (enumerate)
RowId(i) == i + 1

\* one dictionary of results: api_app.py 121-127 with image_url, streamlit_app.py 241-246
ResultRow(i, pred, prob, features) ==
    [id          |-> RowId(i),
     prediction  |-> LabelOf(pred),
     probability |-> ProbabilityOf(pred, prob),
     features    |-> features]

\* api_app.py 119-127: enumerate(zip(predictions, probabilities, df.to_dict('records')))
ApiResults(df) ==
    LET predictions   == Classes(df)
        probabilities == Probabilities(df)
    IN  Tuple([r \in 1..df.n |->
            [image_url |-> ImageUrl(predictions[r])]
            @@ ResultRow(r - 1, predictions[r], probabilities[r], RowDict(df, r))])

\* streamlit_app.py 239-246: enumerate(zip(predictions, probabilities)), df.iloc[i]
DashResults(df) ==
    LET predictions   == Classes(df)
        probabilities == Probabilities(df)
    IN  Tuple([r \in 1..df.n |->
            ResultRow(r - 1, predictions[r], probabilities[r], RowDict(df, r))])

(* ------------------------------------------------------------------ *)
(* Statistics                                                           *)
(* ------------------------------------------------------------------ *)
RECURSIVE SumSeq(_)
SumSeq(s) == IF s = <<>> THEN 0 ELSE Head(s) + SumSeq(Tail(s))

RECURSIVE Pow10(_)
Pow10(d) == IF d = 0 THEN 1 ELSE 10 * Pow10(d - 1)

\* round(count / total * 100, digits), in units of 10^-digits (ties to even)
PyRoundPercent(count, total, digits) ==
    LET q  == count * 100 * Pow10(digits)
        fl == q \div total
        rm == q % total
    IN  IF 2 * rm < total THEN fl
        ELSE IF 2 * rm > total THEN fl + 1
        ELSE IF fl % 2 = 0 THEN fl ELSE fl + 1

NoStats == [total |-> 0, genuine |-> 0, fake |-> 0,
            genuine_percentage |-> 0, fake_percentage |-> 0]

GenuineCountAsLength(predictions) == Len(predictions)

\* genuine_count = int(sum(predictions))
GenuineCount(predictions) == SumSeq(predictions)

\* the "stats" dictionary; digits is 2 in api_app.py and 1 in streamlit_app.py
Stats(predictions, digits) ==
    LET genuine_count == GenuineCount(predictions)
        fake_count    == Len(predictions) - genuine_count
    IN  [total   |-> Len(predictions),
         genuine |-> genuine_count,
         fake    |-> fake_count,
         genuine_percentage |-> PyRoundPercent(genuine_count, Len(predictions), digits),
         fake_percentage    |-> PyRoundPercent(fake_count, Len(predictions), digits)]

ApiDigits == 2
DashDigits == 1

(* ------------------------------------------------------------------ *)
(* predict() of api_app.py                                              *)
(* ------------------------------------------------------------------ *)
NoDetail == [message |-> "", missing_cols |-> <<>>]

\* the handler's locals, and the error it reported, when it raises HTTPException(400)
\* at line 102 or returns None at line 230: nothing after the column check has run
StoppedAtValidation(resolved, missing, message) ==
    [stage |-> "validate", outcome |-> "missing", resolved |-> resolved,
     error |-> [message |-> message, missing_cols |-> missing],
     features |-> NoFrame, imputed |-> NoFrame,
     predictions |-> <<>>, stats |-> NoStats]

\* the same when a statement after the column check raises
RaisedAfterValidation(resolved, features, imputed, message) ==
    [stage |-> "score", outcome |-> "error", resolved |-> resolved,
     error |-> [message |-> message, missing_cols |-> <<>>],
     features |-> features, imputed |-> imputed,
     predictions |-> <<>>, stats |-> NoStats]

\* the same at the return statement
Completed(resolved, features, imputed, predictions, stats) ==
    [stage |-> "done", outcome |-> "ok", resolved |-> resolved,
     error |-> NoDetail,
     features |-> features, imputed |-> imputed,
     predictions |-> predictions, stats |-> stats]

\* the same when contents.decode or pd.read_csv raises in both attempts (71-76)
RaisedAtRead(message) ==
    [stage |-> "read", outcome |-> "error", resolved |-> NoFrame,
     error |-> [message |-> message, missing_cols |-> <<>>],
     features |-> NoFrame, imputed |-> NoFrame,
     predictions |-> <<>>, stats |-> NoStats]

\* An upload is the table its text holds; an upload that carries the fields utf8,
\* cp1252 and parses is one whose bytes do not decode in every encoding or whose
\* text is no CSV.  The other uploads are plain ASCII CSV text.
IsPlainUpload(upload) == DOMAIN upload = {"cols", "n"}

\* contents.decode(encoding) succeeds
Decodes(upload, encoding) == IsPlainUpload(upload) \/ upload[encoding]

\* pd.read_csv on the decoded text succeeds
Parses(upload) == IsPlainUpload(upload) \/ upload.parses

\* StringIO(contents.decode(encoding)) followed by pd.read_csv raises
ReadCsvRaises(upload, encoding) == ~(Decodes(upload, encoding) /\ Parses(upload))

\* api_app.py 71-76: utf-8 first, cp1252 in the bare except; the second failure
\* leaves the handler's try block
ApiReadRaises(upload) == ReadCsvRaises(upload, "utf8") /\ ReadCsvRaises(upload, "cp1252")

\* streamlit_app.py 269: pd.read_csv(uploaded_file, sep=';') decodes as utf-8 only
DashReadRaises(upload) == ReadCsvRaises(upload, "utf8")

\* the DataFrame pd.read_csv returns
ReadCsv(upload) == [cols |-> upload.cols, n |-> upload.n]

\* genuine_count / len(predictions) raises ZeroDivisionError
StatsRaises(df) == df.n = 0

\* df = df[required_columns].apply(pd.to_numeric, errors='coerce')
Features(resolved) == ApplyToNumeric(SelectRequired(resolved))

\* df = df.fillna(df.median()), df being the six coerced columns
ApiImpute(features) == FillNa(features, FrameMedian(features))

\* api_app.py 67-153, from the upload to the return or the HTTPException
ApiRun(upload) ==
    LET resolved == ResolveColumns(ReadCsv(upload))
        missing  == MissingCols(resolved)
    IN  IF ApiReadRaises(upload)
        THEN RaisedAtRead("Erreur interne du serveur")
        ELSE IF missing # <<>>
        THEN StoppedAtValidation(resolved, missing, "Colonnes requises manquantes")
        ELSE LET features == Features(resolved)
                 imputed  == ApiImpute(features)
             IN  IF ScoringRaises(imputed) \/ StatsRaises(imputed)
                 THEN RaisedAfterValidation(resolved, features, imputed,
                                            "Erreur interne du serveur")
                 ELSE Completed(resolved, features, imputed, ApiResults(imputed),
                                Stats(Classes(imputed), ApiDigits))

\* The returned dictionary is encoded after the handler has returned, outside its
\* try block.  A NaN among the features either makes the JSON encoder raise
\* ValueError or is written as null, depending on the installed fastapi / pydantic.
SerializationRaises(run) ==
    /\ run.outcome = "ok"
    /\ FrameHasNaN(run.imputed)
    /\ build.json_nan = "raise"

\* app = FastAPI(debug=True) (line 39): an exception that leaves the route is
\* answered by the debug page, status 500 with the exception and its traceback
DebugResponse(exception) ==
    [status |-> 500, predictions |-> <<>>, stats |-> NoStats,
     detail |-> [message |-> exception, missing_cols |-> <<>>]]

\* the response of the handler: the return at 144, the HTTPException of 102 re-raised
\* at 146-147, or the HTTPException(500) of 148-153
ApiResponse(run) ==
    IF SerializationRaises(run)
    THEN DebugResponse("ValueError: Out of range float values are not JSON compliant")
    ELSE IF run.outcome = "ok"
    THEN [status |-> 200, predictions |-> run.predictions, stats |-> run.stats,
          detail |-> NoDetail]
    ELSE IF run.outcome = "missing"
    THEN [status |-> 400, predictions |-> <<>>, stats |-> NoStats, detail |-> run.error]
    ELSE [status |-> 500, predictions |-> <<>>, stats |-> NoStats, detail |-> run.error]

(* ------------------------------------------------------------------ *)
(* predict_data() of streamlit_app.py                                   *)
(* ------------------------------------------------------------------ *)
\* df.median() at line 233 is taken on the argument as resolved, before the
\* selection and the coercion: it raises on an object column in the builds of
\* pandas that do not drop such columns
DashMedianRaises(resolved) ==
    /\ build.median_object = "raise"
    /\ \E i \in DOMAIN resolved.cols : IsObjectColumn(resolved.cols[i])

\* df[required_columns].apply(pd.to_numeric, errors='coerce').fillna(df.median())
DashImpute(resolved, features) == FillNa(features, FrameMedianDropObject(resolved))

\* streamlit_app.py 207-263
DashRun(table) ==
    LET resolved == ResolveColumns(table)
        missing  == MissingCols(resolved)
    IN  IF missing # <<>>
        THEN StoppedAtValidation(resolved, missing, "Colonnes manquantes")
        ELSE LET features == Features(resolved)
             IN  IF DashMedianRaises(resolved)
                 THEN RaisedAfterValidation(resolved, features, NoFrame,
                                            "Erreur lors de la prediction")
                 ELSE LET imputed == DashImpute(resolved, features)
                      IN  IF ScoringRaises(imputed) \/ StatsRaises(imputed)
                          THEN RaisedAfterValidation(resolved, features, imputed,
                                                     "Erreur lors de la prediction")
                          ELSE Completed(resolved, features, imputed, DashResults(imputed),
                                         Stats(Classes(imputed), DashDigits))

\* the value predict_data returns
DashReturn(run) ==
    IF run.outcome = "ok"
    THEN [predictions |-> run.predictions, stats |-> run.stats]
    ELSE None

\* the frame passed to predict_data, after the call: renamed in place at 209 and 223
ArgumentAfterCall(df) == ResolveColumns(df)

CallerFrameNoCopy(df) == ArgumentAfterCall(df)

\* the caller's table after predict_data(st.session_state.df.copy()): the in-place
\* renames reach the copy only
CallerFrameAfterAnalyze(df) == df

(* ------------------------------------------------------------------ *)
(* Uploaded tables                                                      *)
(* ------------------------------------------------------------------ *)
MaxRows == 3

UpperChar(ch) ==
    IF \E i \in DOMAIN LowerChars : LowerChars[i] = ch
    THEN UpperChars[CHOOSE i \in DOMAIN LowerChars : LowerChars[i] = ch]
    ELSE ch

\* the ways a header is written: as is; "Diagonale " (capital, trailing space);
\* " HEIGHT LEFT" (leading space, capitals, a space for the underscore)
Decorate(d, s) ==
    IF d = 1 THEN s
    ELSE IF d = 2 THEN <<UpperChar(Head(s))>> \o Tail(s) \o <<" ">>
    ELSE <<" ">> \o [i \in DOMAIN s |-> IF s[i] = "_" THEN " " ELSE UpperChar(s[i])]

Decorations == {1, 2, 3}

note_id == <<"i","d">>

ReplaceAt(h, k, name) == [h EXCEPT ![k] = name]

DropAt(h, k) == [i \in 1..(Len(h) - 1) |-> IF i < k THEN h[i] ELSE h[i + 1]]

\* the required header with one column written as one of its variants
VariantHeaders(ds) ==
    UNION { { ReplaceAt(required_columns, k, Decorate(d, column_mapping[k].variants[j])) :
                j \in DOMAIN column_mapping[k].variants, d \in ds } :
            k \in DOMAIN column_mapping }

\* a seventh column: unknown, or one more candidate for a canonical name
ExtraNames ==
    { note_id, diagonale, longueur, Decorate(2, diagonal), Decorate(2, dingmail),
      Decorate(3, margin_low) }

FrenchHeader ==
    [k \in DOMAIN column_mapping |->
        Decorate(IF k % 2 = 1 THEN 2 ELSE 3,
                 column_mapping[k].variants[Len(column_mapping[k].variants)])]

\* pd.read_csv renames a repeated header, so the names of a parsed table differ
DistinctNames(h) == \A i, j \in DOMAIN h : h[i] = h[j] => i = j

StudyHeaders ==
    VariantHeaders(Decorations)
    \cup { DropAt(required_columns, k) : k \in DOMAIN required_columns }
    \cup { DropAt(DropAt(required_columns, 5), 2) }
    \cup { h \in { Append(g, x) : g \in VariantHeaders({1}), x \in ExtraNames } :
             DistinctNames(h) }
    \cup { FrenchHeader, <<note_id>> \o required_columns,
           [k \in DOMAIN required_columns |-> required_columns[7 - k]] }

BodyHeaders == { Append(required_columns, note_id) }

\* a row: the cell of column j is base + 2j, but for one cell that is blank or text
PlainRow(b) == [base |-> b, at |-> 0, defect |-> NaN]

RowPool ==
    { PlainRow(0), PlainRow(10),
      [base |-> 20, at |-> 4, defect |-> NaN],
      [base |-> 20, at |-> 4, defect |-> Text],
      [base |-> 20, at |-> 7, defect |-> Text] }

CellOf(row, j) == IF row.at = j THEN row.defect ELSE Num(row.base + 2 * j)

MakeTable(h, body) ==
    [cols |-> Tuple([j \in DOMAIN h |->
                  [name |-> h[j], cells |-> Tuple([r \in DOMAIN body |-> CellOf(body[r], j)])]]),
     n |-> Len(body)]

StudyBodies == { <<PlainRow(0), PlainRow(20)>> }

Bodies == UNION { [1..n -> RowPool] : n \in 0..MaxRows }

Tables ==
    { MakeTable(h, b) : h \in StudyHeaders, b \in StudyBodies }
    \cup { MakeTable(h, b) : h \in BodyHeaders, b \in Bodies }

\* an upload that is not plain ASCII CSV text
EncodedUpload(table, utf8, cp1252, parses) ==
    [cols |-> table.cols, n |-> table.n, utf8 |-> utf8, cp1252 |-> cp1252, parses |-> parses]

\* bytes that decode neither as utf-8 nor as cp1252 (0x81 alone)
UndecodableUpload == EncodedUpload(NoFrame, FALSE, FALSE, FALSE)

\* a file of no bytes: both decodes succeed, pd.read_csv raises EmptyDataError
EmptyUpload == EncodedUpload(NoFrame, TRUE, TRUE, FALSE)

\* a CSV saved as cp1252 whose extra column holds an accented word
Cp1252Upload ==
    EncodedUpload(MakeTable(Append(required_columns, note_id),
                            <<PlainRow(0), [base |-> 20, at |-> 7, defect |-> Text]>>),
                  FALSE, TRUE, TRUE)

Uploads == Tables \cup {UndecodableUpload, EmptyUpload, Cp1252Upload}

\* the pairs random_forest_model.sav, scaler.sav the process may find
Artifacts ==
    { [model |-> [cut |-> 70, slope |-> 1], scaler |-> [mean |-> 0]],
      [model |-> [cut |-> 120, slope |-> 2], scaler |-> [mean |-> 2]] }

\* json_nan is consulted only when the classifier has scored a row holding a NaN
Builds ==
    { b \in [median_object : {"drop", "raise"}, predict_nan : {"raise", "score"},
             json_nan : {"raise", "null"}] :
        b.predict_nan = "raise" => b.json_nan = "raise" }

(* ------------------------------------------------------------------ *)
(* The state machine                                                    *)
(* ------------------------------------------------------------------ *)
\* start-up: module-level joblib.load of api_app.py 56-63, load_model of
\* streamlit_app.py 26-36, session state of streamlit_app.py 20-23
Init ==
    /\ build \in Builds
    /\ artifacts \in {None} \cup Artifacts
    /\ file \in Uploads
    /\ http_run = None
    /\ response = None
    /\ session_df = None
    /\ session_results = None
    /\ dash_run = None
    /\ st_error = NoDetail

\* POST /predict with the file; the process serves only if the artifacts loaded
HttpPredict ==
    /\ artifacts # None
    /\ UNCHANGED <<build, artifacts, file, session_df, session_results, dash_run, st_error>>
    /\ http_run' = ApiRun(file)
    /\ response' = ApiResponse(http_run')

\* st.session_state.df = load_data(uploaded_file) (265-271); when pd.read_csv
\* raises, the except of 289-290 reports it and the session keeps the table it had
LoadIntoSession(upload) ==
    IF DashReadRaises(upload)
    THEN /\ st_error' = [message |-> "Erreur de lecture du fichier", missing_cols |-> <<>>]
         /\ session_df' = session_df
    ELSE /\ session_df' = ReadCsv(upload)
         /\ st_error' = NoDetail

\* a script run with the file in the uploader
Upload ==
    /\ UNCHANGED <<build, artifacts, file, http_run, response, session_results, dash_run>>
    /\ LoadIntoSession(file)

\* st.error("Modele non charge") at line 280
ModelNotLoaded == [message |-> "Modele non charge", missing_cols |-> <<>>]

ModelNeverNone(loaded) == FALSE

\* model is None or scaler is None (line 279): load_model returned (None, None)
ModelIsNone(loaded) == loaded = None

\* a click on "Analyser" (streamlit_app.py 276-285); the button is drawn only
\* after load_data has returned
AnalyzeClick ==
    /\ session_df # None
    /\ ~DashReadRaises(file)
    /\ UNCHANGED <<build, artifacts, file, http_run, response>>
    /\ IF ModelIsNone(artifacts)
       THEN /\ st_error' = ModelNotLoaded
            /\ UNCHANGED <<session_df, session_results, dash_run>>
       ELSE /\ session_df' = CallerFrameAfterAnalyze(session_df)
            /\ dash_run' = DashRun(session_df)
            /\ session_results' = DashReturn(dash_run')
            /\ st_error' = dash_run'.error

Next == HttpPredict \/ Upload \/ AnalyzeClick

Spec == Init /\ [][Next]_vars

(* ------------------------------------------------------------------ *)
(* One dashboard session in which the user replaces the file            *)
(* ------------------------------------------------------------------ *)
\* two tables that score, one that lacks height_right, one without rows (the
\* statistics raise) and a file pd.read_csv cannot read
SessionUploads ==
    { MakeTable(required_columns, <<PlainRow(0)>>),
      MakeTable(required_columns, <<PlainRow(20), PlainRow(0)>>),
      MakeTable(DropAt(required_columns, 3), <<PlainRow(0)>>),
      MakeTable(required_columns, <<>>),
      EmptyUpload }

SessionInit ==
    /\ build \in Builds
    /\ artifacts \in {None} \cup Artifacts
    /\ file \in SessionUploads
    /\ http_run = None
    /\ response = None
    /\ session_df = None
    /\ session_results = None
    /\ dash_run = None
    /\ st_error = NoDetail

\* the user puts another file in the uploader (line 199) and the script runs
ReplaceFile ==
    \E upload \in SessionUploads :
        /\ upload # file
        /\ file' = upload
        /\ UNCHANGED <<build, artifacts, http_run, response, session_results, dash_run>>
        /\ LoadIntoSession(upload)

SessionNext == Upload \/ ReplaceFile \/ AnalyzeClick

SessionSpec == SessionInit /\ [][SessionNext]_vars

(* ------------------------------------------------------------------ *)
(* Properties                                                           *)
(* ------------------------------------------------------------------ *)
HttpCalled == http_run # None
DashCalled == dash_run # None

Canonical == {required_columns[k] : k \in DOMAIN required_columns}

SeqToSet(q) == {q[i] : i \in DOMAIN q}

\* the canonical names that are no column of a frame
Absent(df) == {c \in Canonical : \A i \in DOMAIN df.cols : df.cols[i].name # c}

\* C1, HTTP surface: when a canonical name is no column after resolution, the
\* handler stops at the column check (nothing imputed, nothing scored), answers 400
\* with no predictions and no stats, and lists exactly the absent names; when none
\* is absent the response is no 400 and lists no name.
C1_Http ==
    HttpCalled /\ http_run.stage # "read" =>
        IF Absent(http_run.resolved) # {}
        THEN /\ http_run.stage = "validate"
             /\ http_run.features = NoFrame /\ http_run.imputed = NoFrame
             /\ response.status = 400
             /\ response.predictions = <<>> /\ response.stats = NoStats
             /\ SeqToSet(response.detail.missing_cols) = Absent(http_run.resolved)
        ELSE /\ response.status # 400
             /\ response.detail.missing_cols = <<>>

\* C1, dashboard: the same, predict_data returning None and st.error naming exactly
\* the absent names.
C1_Dash ==
    DashCalled =>
        IF Absent(dash_run.resolved) # {}
        THEN /\ dash_run.stage = "validate"
             /\ dash_run.features = NoFrame /\ dash_run.imputed = NoFrame
             /\ session_results = None
             /\ dash_run.predictions = <<>> /\ dash_run.stats = NoStats
             /\ dash_run.error.message = "Colonnes manquantes"
             /\ SeqToSet(dash_run.error.missing_cols) = Absent(dash_run.resolved)
        ELSE /\ dash_run.error.message # "Colonnes manquantes"
             /\ dash_run.error.missing_cols = <<>>

\* C1: missing required columns after resolution stop the pipeline before imputation
\* and scoring, with exactly the absent canonical names reported (400 / None), and no
\* missing-columns error is reported when none is absent.
C1_MissingColumnsStop == C1_Http /\ C1_Dash

\* C1 witness: both surfaces have rejected a table that lacks two canonical columns
C1_Witness ==
    /\ HttpCalled /\ DashCalled
    /\ Cardinality(Absent(http_run.resolved)) = 2
    /\ response.status = 400
    /\ session_results = None
    /\ Len(dash_run.error.missing_cols) = 2

\* trim, lowercase, spaces replaced by underscores, as the claim words it
ClaimNormalize(s) ==
    LET keep == {i \in DOMAIN s : s[i] # " "}
        lo   == CHOOSE i \in keep : \A j \in keep : i <= j
        hi   == CHOOSE i \in keep : \A j \in keep : j <= i
    IN  IF keep = {} THEN <<>>
        ELSE Tuple([i \in 1..(hi - lo + 1) |->
                 IF s[lo + i - 1] = " " THEN "_" ELSE LowerChar(s[lo + i - 1])])

VariantSet(k) == SeqToSet(column_mapping[k].variants)

\* the uploaded table's column names, normalized as the claim words it
ClaimNames == Tuple([i \in DOMAIN file.cols |-> ClaimNormalize(file.cols[i].name)])

\* the columns of the uploaded table whose name normalizes to an alias of canonical k
Candidates(k) == {i \in DOMAIN file.cols : ClaimNames[i] \in VariantSet(k)}

AliasResolved(run) ==
    LET names == ClaimNames
    IN  \A k \in DOMAIN column_mapping : \A a \in VariantSet(k) :
            \A i \in DOMAIN file.cols :
                (names[i] = a /\ \A j \in DOMAIN file.cols : names[j] \in VariantSet(k) => j = i)
                => /\ run.resolved.cols[i].name = column_mapping[k].standard_name
                   /\ run.resolved.cols[i].cells = file.cols[i].cells
                   /\ \A j \in DOMAIN run.resolved.cols :
                         run.resolved.cols[j].name = column_mapping[k].standard_name => j = i

\* C2: a column that is the only one normalizing to an alias of a canonical name is,
\* after resolution, the column of that canonical name, with its values (both surfaces).
C2_AliasResolved ==
    /\ HttpCalled => AliasResolved(http_run)
    /\ DashCalled => AliasResolved(dash_run)

\* C2 witness: a table with a column "Diagonale " went through both handlers and that
\* column is now named diagonal
C2_Witness ==
    /\ HttpCalled /\ DashCalled
    /\ \E i \in DOMAIN file.cols :
          /\ file.cols[i].name = <<"D","i","a","g","o","n","a","l","e"," ">>
          /\ Candidates(1) = {i}
          /\ http_run.resolved.cols[i].name = diagonal
          /\ dash_run.resolved.cols[i].name = diagonal

\* the columns a resolution gave a canonical name they did not have once cleaned
RenamedTo(run, c) ==
    LET names == ClaimNames
    IN  {i \in DOMAIN file.cols : run.resolved.cols[i].name = c /\ names[i] # c}

SixFeatureColumns(run) ==
    /\ \A c \in Canonical : Cardinality(RenamedTo(run, c)) <= 1
    /\ run.stage # "validate" => ColumnNames(run.features) = required_columns

\* C3: for every table, at most one column is renamed per canonical name and the
\* table handed to imputation and scoring has exactly the six canonical columns, in
\* order.
C3_SixFeatureColumns ==
    /\ HttpCalled => SixFeatureColumns(http_run)
    /\ DashCalled => SixFeatureColumns(dash_run)

HttpOk == HttpCalled /\ response.status = 200
DashOk == DashCalled /\ session_results # None

Abs(v) == IF v < 0 THEN -v ELSE v

\* the invariant of a stats dictionary; unit is 10^digits, the percentages being
\* integers in units of 10^-digits
StatsConsistent(predictions, stats, unit) ==
    /\ stats.genuine + stats.fake = stats.total
    /\ stats.total = Len(predictions)
    /\ stats.genuine =
          Cardinality({r \in DOMAIN predictions : predictions[r].prediction = "Genuine"})
    /\ 2 * Abs(stats.genuine_percentage + stats.fake_percentage - 100 * unit) <= unit

\* C4: for every scored batch of at least one row, genuine + fake = total = number of
\* predictions, genuine = number of predictions labelled Genuine, and the two rounded
\* percentages sum to 100 once rounded (HTTP: 2 decimals, dashboard: 1 decimal).
C4_StatsConsistent ==
    /\ (HttpOk /\ Len(response.predictions) >= 1)
          => StatsConsistent(response.predictions, response.stats, 100)
    /\ (DashOk /\ Len(session_results.predictions) >= 1)
          => StatsConsistent(session_results.predictions, session_results.stats, 10)

\* C4 witness: a batch of three notes, one genuine, scored by both surfaces:
\* 33.33 + 66.67 and 33.3 + 66.7
C4_Witness ==
    /\ HttpOk /\ DashOk
    /\ response.stats.total = 3 /\ response.stats.genuine = 1
    /\ response.stats.genuine_percentage = 3333 /\ response.stats.fake_percentage = 6667
    /\ session_results.stats.genuine_percentage = 333
    /\ session_results.stats.fake_percentage = 667

\* C5: a batch of 0 rows that has the six required columns gets a successful result
\* with total = 0, no prediction and both percentages 0, on both surfaces.
C5_EmptyBatchSucceeds ==
    /\ (HttpCalled /\ file.n = 0 /\ http_run.stage # "validate")
          => /\ response.status = 200
             /\ response.predictions = <<>>
             /\ response.stats = NoStats
    /\ (DashCalled /\ file.n = 0 /\ dash_run.stage # "validate")
          => /\ session_results # None
             /\ session_results.predictions = <<>>
             /\ session_results.stats = NoStats

LabelAndProbability(run, predictions) ==
    \A r \in DOMAIN predictions :
        LET x    == ScaledRow(artifacts.scaler, run.imputed, r)
            pred == Predict(artifacts.model, x)
            prob == PredictProba(artifacts.model, x)
        IN  /\ predictions[r].prediction \in {"Genuine", "Fake"}
            /\ predictions[r].prediction = "Genuine" <=> pred = 1
            /\ predictions[r].probability =
                  IF predictions[r].prediction = "Genuine" THEN prob[2] ELSE prob[1]
            /\ (prob[1] \in 0..100 /\ prob[2] \in 0..100)
                  => predictions[r].probability \in 0..100

\* C6: a row is labelled Genuine exactly when the classifier predicts class 1, and its
\* probability is the classifier's probability of the predicted class (p1 when
\* Genuine, p0 when Fake), hence within [0,1] (0..100 percent) when p0 and p1 are.
C6_LabelAndProbability ==
    /\ HttpOk => LabelAndProbability(http_run, response.predictions)
    /\ DashOk => LabelAndProbability(dash_run, session_results.predictions)

\* C6 witness: both surfaces returned a Genuine and a Fake note, the Fake one with
\* p0 different from p1
C6_Witness ==
    /\ HttpOk /\ DashOk
    /\ \E r \in DOMAIN response.predictions : response.predictions[r].prediction = "Genuine"
    /\ \E r \in DOMAIN response.predictions :
          /\ response.predictions[r].prediction = "Fake"
          /\ response.predictions[r].probability # 50
    /\ \E r \in DOMAIN session_results.predictions :
          /\ session_results.predictions[r].prediction = "Fake"
          /\ session_results.predictions[r].probability # 50

HasNumber(cells) == \E r \in DOMAIN cells : cells[r].k = "num"

MedianImputed(run) ==
    (run.stage # "validate" /\ Len(run.features.cols) = Len(required_columns))
    => \A i \in DOMAIN run.features.cols : \A r \in DOMAIN run.features.cols[i].cells :
          HasNumber(run.features.cols[i].cells)
          => IF run.features.cols[i].cells[r].k = "num"
             THEN Len(run.imputed.cols) = Len(required_columns)
                     => run.imputed.cols[i].cells[r] = run.features.cols[i].cells[r]
             ELSE /\ Len(run.imputed.cols) = Len(required_columns)
                  /\ run.imputed.cols[i].cells[r] = Median(run.features.cols[i].cells)

\* C7, HTTP surface alone
C7_Http == HttpCalled => MedianImputed(http_run)

\* C7: in every canonical column that has a number, each missing (blank or
\* non-numeric) cell becomes the median of the column's numbers in the batch and the
\* other cells are unchanged, on the HTTP surface and on the dashboard.
C7_MedianImputation ==
    /\ HttpCalled => MedianImputed(http_run)
    /\ DashCalled => MedianImputed(dash_run)

\* the cell of row r of the resolved column that carries canonical name number i
ResolvedCell(run, i, r) ==
    LET j == CHOOSE j \in DOMAIN run.resolved.cols :
                run.resolved.cols[j].name = required_columns[i]
    IN  run.resolved.cols[j].cells[r]

RowsInOrder(run, predictions) ==
    /\ Len(predictions) = file.n
    /\ \A k \in DOMAIN predictions :
          /\ predictions[k].id = k
          /\ predictions[k].features = RowDict(run.imputed, k)
          /\ Len(predictions[k].features) = Len(required_columns)
          /\ \A i \in DOMAIN required_columns :
                /\ predictions[k].features[i].name = required_columns[i]
                /\ ResolvedCell(run, i, k).k = "num"
                      => predictions[k].features[i].value = ResolvedCell(run, i, k)

\* C8: a successful result over n rows holds n predictions in input order, the k-th
\* with id k and the imputed features of row k; a result that is no success holds no
\* prediction at all.
C8_RowsInOrder ==
    /\ HttpOk => RowsInOrder(http_run, response.predictions)
    /\ (HttpCalled /\ response.status # 200) => response.predictions = <<>>
    /\ DashOk => RowsInOrder(dash_run, session_results.predictions)
    /\ (DashCalled /\ dash_run.outcome # "ok") => session_results = None

\* C8 witness: both surfaces returned three predictions, the last with id 3
C8_Witness ==
    /\ HttpOk /\ DashOk
    /\ Len(response.predictions) = 3 /\ response.predictions[3].id = 3
    /\ Len(session_results.predictions) = 3 /\ session_results.predictions[3].id = 3

SamePrediction(a, d) ==
    /\ a.id = d.id /\ a.prediction = d.prediction
    /\ a.probability = d.probability /\ a.features = d.features

\* C10: on the same parsed table the two handlers both fail, or both succeed with the
\* same predictions and the same stats values.
C10_SamePipeline ==
    (HttpCalled /\ DashCalled) =>
        /\ response.status = 200 <=> session_results # None
        /\ (response.status = 200 /\ session_results # None) =>
              /\ Len(response.predictions) = Len(session_results.predictions)
              /\ \A k \in DOMAIN response.predictions :
                    SamePrediction(response.predictions[k], session_results.predictions[k])
              /\ response.stats.total = session_results.stats.total
              /\ response.stats.genuine = session_results.stats.genuine
              /\ response.stats.fake = session_results.stats.fake
              /\ response.stats.genuine_percentage * Pow10(DashDigits)
                    = session_results.stats.genuine_percentage * Pow10(ApiDigits)
              /\ response.stats.fake_percentage * Pow10(DashDigits)
                    = session_results.stats.fake_percentage * Pow10(ApiDigits)


\* the fixed body of the handler's HTTPException(500) (api_app.py 150-153)
GenericDetail == [message |-> "Erreur interne du serveur", missing_cols |-> <<>>]

\* C11: every HTTP request that carries a file ends in one of three outcomes: 200
\* with predictions and stats when the handler completed; 400 exactly when the file
\* was read and a required column is absent after resolution (never turned into a
\* 500); 500 for every other failure (undecodable bytes, parse failure, scaler or
\* classifier error), its body being the fixed generic message and nothing of the
\* underlying exception.
C11_HttpOutcomes ==
    HttpCalled =>
        /\ response.status \in {200, 400, 500}
        /\ (response.status = 200) = (http_run.outcome = "ok")
        /\ response.status = 200 =>
               /\ response.stats # NoStats
               /\ response.predictions = http_run.predictions
               /\ response.detail = NoDetail
        /\ (response.status = 400) =
               (http_run.stage # "read" /\ Absent(http_run.resolved) # {})
        /\ response.status = 400 =>
               response.detail.message = "Colonnes requises manquantes"
        /\ response.status = 500 => response.detail = GenericDetail
        /\ ApiReadRaises(file) => response.status = 500
        /\ response.status # 200 =>
               response.predictions = <<>> /\ response.stats = NoStats

\* C12: when the artifacts failed to load at start-up nothing is ever scored: the
\* HTTP process serves no request (no handler run, no response), and every Analyze
\* click reports that the model is not loaded, does not call predict_data and
\* leaves st.session_state.results as it was.
C12_NoScoringWithoutArtifacts ==
    [][ artifacts = None =>
          /\ http_run = None /\ http_run' = None
          /\ response = None /\ response' = None
          /\ dash_run = None /\ dash_run' = None
          /\ session_results' = session_results
          /\ (AnalyzeClick => st_error'.message = "Modele non charge") ]_vars

\* C12 witness: a table is in the session, Analyze was clicked with no artifacts
\* loaded, and nothing was scored
C12_Witness ==
    /\ artifacts = None
    /\ session_df # None
    /\ st_error.message = "Modele non charge"
    /\ dash_run = None
    /\ session_results = None

\* the results section is rendered (streamlit_app.py 293)
ResultsDisplayed == session_results # None

\* C13: in the dashboard, whenever results are displayed they are the results of
\* the table st.session_state.df holds now: none of an earlier upload is displayed
\* for a table that has not been analysed, and after an Analyze action that failed
\* (missing columns, prediction error) no results are displayed.
C13_ResultsFresh ==
    /\ ResultsDisplayed =>
          /\ DashCalled /\ dash_run.outcome = "ok"
          /\ session_df # None
          /\ session_results = DashReturn(DashRun(session_df))
    /\ (DashCalled /\ dash_run.outcome # "ok") => ~ResultsDisplayed

====
